---- MODULE Spec2Model ----
(***************************************************************************)
(* Model of configdrift-scheduledconfigcheck (src/main.py): a scheduler    *)
(* loop that periodically runs a command, parses its output, loads a       *)
(* baseline document, compares the two with DeepDiff(ignore_order=True)    *)
(* and logs / saves the differences.                                       *)
(***************************************************************************)
EXTENDS Integers, Sequences, FiniteSets, TLC

(***************************************************************************)
(* Bounds of the model.                                                    *)
(***************************************************************************)
\* largest --interval value explored (argparse accepts any int)
MaxInterval == 10
\* smallest --interval value explored
LowInterval == 8
\* seconds a command may be observed running beyond the interval
MaxOverrun == 1

\* the minimum interval of is_valid_interval
MinInterval == 10

Intervals == LowInterval..MaxInterval

(***************************************************************************)
(* Parsed documents.  A Python value produced by yaml.safe_load or         *)
(* json.loads is a node [k, v, keys, kids]:                                *)
(*   k = "None"                    Python None (YAML/JSON null, empty doc) *)
(*   k in {"str","int","float","bool"}   a scalar, v its value             *)
(*   k = "list"                    kids = the items, in order              *)
(*   k = "dict"                    keys[i] maps to kids[i]                 *)
(* A parser that raises is the node of kind "YAMLError" or                 *)
(* "JSONDecodeError".                                                      *)
(***************************************************************************)
None == [k |-> "None", v |-> "", keys |-> <<>>, kids |-> <<>>]
Scalar(kind, val) == [k |-> kind, v |-> val, keys |-> <<>>, kids |-> <<>>]
List(items) == [k |-> "list", v |-> "", keys |-> <<>>, kids |-> items]
Dict(ks, vs) == [k |-> "dict", v |-> "", keys |-> ks, kids |-> vs]
YAMLError == [k |-> "YAMLError", v |-> "", keys |-> <<>>, kids |-> <<>>]
JSONDecodeError == [k |-> "JSONDecodeError", v |-> "", keys |-> <<>>, kids |-> <<>>]

\* The document texts a command may print or a baseline may contain.
Texts ==
  { "{\"a\": 1}", "a: 1", "[1, 2]", "[2, 1]",
    "{\"a\": [[1, 2], [3]]}", "{\"a\": [[3], [2, 1]]}",
    "null", "", "hello", "0", "1e3", "{\"a\":\t1}", "{" }

\* yaml.safe_load (PyYAML, YAML 1.1) on each text
YamlLoad(text) ==
  CASE text = "{\"a\": 1}" -> Dict(<<"a">>, <<Scalar("int", "1")>>)
    [] text = "a: 1" -> Dict(<<"a">>, <<Scalar("int", "1")>>)
    [] text = "[1, 2]" -> List(<<Scalar("int", "1"), Scalar("int", "2")>>)
    [] text = "[2, 1]" -> List(<<Scalar("int", "2"), Scalar("int", "1")>>)
    [] text = "{\"a\": [[1, 2], [3]]}" ->
         Dict(<<"a">>, <<List(<<List(<<Scalar("int", "1"), Scalar("int", "2")>>),
                                 List(<<Scalar("int", "3")>>)>>)>>)
    [] text = "{\"a\": [[3], [2, 1]]}" ->
         Dict(<<"a">>, <<List(<<List(<<Scalar("int", "3")>>),
                                 List(<<Scalar("int", "2"), Scalar("int", "1")>>)>>)>>)
    [] text = "null" -> None
    [] text = "" -> None
    [] text = "hello" -> Scalar("str", "hello")
    [] text = "0" -> Scalar("int", "0")
    \* YAML 1.1 floats need a dot: 1e3 is a plain string
    [] text = "1e3" -> Scalar("str", "1e3")
    \* a tab cannot separate tokens in PyYAML
    [] text = "{\"a\":\t1}" -> YAMLError
    [] text = "{" -> YAMLError

\* json.loads on each text
JsonLoads(text) ==
  CASE text = "{\"a\": 1}" -> Dict(<<"a">>, <<Scalar("int", "1")>>)
    [] text = "a: 1" -> JSONDecodeError
    [] text = "[1, 2]" -> List(<<Scalar("int", "1"), Scalar("int", "2")>>)
    [] text = "[2, 1]" -> List(<<Scalar("int", "2"), Scalar("int", "1")>>)
    [] text = "{\"a\": [[1, 2], [3]]}" ->
         Dict(<<"a">>, <<List(<<List(<<Scalar("int", "1"), Scalar("int", "2")>>),
                                 List(<<Scalar("int", "3")>>)>>)>>)
    [] text = "{\"a\": [[3], [2, 1]]}" ->
         Dict(<<"a">>, <<List(<<List(<<Scalar("int", "3")>>),
                                 List(<<Scalar("int", "2"), Scalar("int", "1")>>)>>)>>)
    [] text = "null" -> None
    [] text = "" -> JSONDecodeError
    [] text = "hello" -> JSONDecodeError
    [] text = "0" -> Scalar("int", "0")
    [] text = "1e3" -> Scalar("float", "1000.0")
    [] text = "{\"a\":\t1}" -> Dict(<<"a">>, <<Scalar("int", "1")>>)
    [] text = "{" -> JSONDecodeError

IsError(node) == node.k \in {"YAMLError", "JSONDecodeError"}

(***************************************************************************)
(* format_output(config_string, format): the parsed command output, or     *)
(* None when parsing raised.                                               *)
(***************************************************************************)
format_output(config_string, format) ==
  IF format = "yaml"
    THEN IF IsError(YamlLoad(config_string)) THEN None ELSE YamlLoad(config_string)
  ELSE IF format = "json"
    THEN IF IsError(JsonLoads(config_string)) THEN None ELSE JsonLoads(config_string)
  ELSE \* autodetection: YAML, then JSON
    IF ~IsError(YamlLoad(config_string)) THEN YamlLoad(config_string)
    ELSE IF ~IsError(JsonLoads(config_string)) THEN JsonLoads(config_string)
    ELSE None

(***************************************************************************)
(* load_baseline(baseline_path, format, remote).  The file or URL is read  *)
(* by the environment: readable says whether open() / requests.get()       *)
(* succeeded, content is the text read.  suffix is the lower-cased end of  *)
(* baseline_path.                                                          *)
(***************************************************************************)
Suffixes == {".yaml", ".json", ".txt"}

\* a bug: the name's suffix wins over an explicit --format
BaselineFormatBySuffix(suffix, format) ==
  IF suffix = ".json" THEN "json"
  ELSE IF suffix = ".yaml" THEN "yaml"
  ELSE IF format = "none" THEN "yaml" ELSE format

BaselineFormat(suffix, format) ==
  IF format = "none"
    THEN IF suffix = ".yaml" THEN "yaml"
         ELSE IF suffix = ".json" THEN "json"
         ELSE "yaml"
    ELSE format

\* a bug: an unreadable baseline becomes an empty configuration
load_baseline_empty_on_failure(readable, content, suffix, format) ==
  IF ~readable THEN Dict(<<>>, <<>>)
  ELSE IF BaselineFormat(suffix, format) = "yaml"
    THEN IF IsError(YamlLoad(content)) THEN None ELSE YamlLoad(content)
  ELSE IF BaselineFormat(suffix, format) = "json"
    THEN IF IsError(JsonLoads(content)) THEN None ELSE JsonLoads(content)
  ELSE None

\* a variant: autodetection by suffix falls back to the other format
load_baseline_with_fallback(readable, content, suffix, format) ==
  IF ~readable THEN None
  ELSE IF format = "none"
    THEN IF BaselineFormat(suffix, format) = "json"
           THEN IF ~IsError(JsonLoads(content)) THEN JsonLoads(content)
                ELSE IF ~IsError(YamlLoad(content)) THEN YamlLoad(content)
                ELSE None
           ELSE IF ~IsError(YamlLoad(content)) THEN YamlLoad(content)
                ELSE IF ~IsError(JsonLoads(content)) THEN JsonLoads(content)
                ELSE None
  ELSE IF format = "yaml"
    THEN IF IsError(YamlLoad(content)) THEN None ELSE YamlLoad(content)
  ELSE IF IsError(JsonLoads(content)) THEN None ELSE JsonLoads(content)

load_baseline(readable, content, suffix, format) ==
  IF ~readable THEN None
  ELSE IF BaselineFormat(suffix, format) = "yaml"
    THEN IF IsError(YamlLoad(content)) THEN None ELSE YamlLoad(content)
  ELSE IF BaselineFormat(suffix, format) = "json"
    THEN IF IsError(JsonLoads(content)) THEN None ELSE JsonLoads(content)
  ELSE None

(***************************************************************************)
(* DeepDiff(t1, t2, ignore_order=True).  Items of a list are matched by    *)
(* their order-insensitive deep hash, repetitions ignored                  *)
(* (report_repetition is off by default); SameUnordered(a, b) says that    *)
(* two values have the same such hash.                                     *)
(***************************************************************************)
Range(seq) == {seq[i] : i \in DOMAIN seq}

DictGet(d, key) == d.kids[CHOOSE i \in DOMAIN d.keys : d.keys[i] = key]

\* a bug: items are matched by an order-sensitive hash
SameOrdered(a, b) == a = b

RECURSIVE SameUnordered(_, _)
SameUnordered(a, b) ==
  IF a.k # b.k THEN FALSE
  ELSE IF a.k = "list"
    THEN /\ \A i \in DOMAIN a.kids : \E j \in DOMAIN b.kids :
              SameUnordered(a.kids[i], b.kids[j])
         /\ \A j \in DOMAIN b.kids : \E i \in DOMAIN a.kids :
              SameUnordered(a.kids[i], b.kids[j])
  ELSE IF a.k = "dict"
    THEN /\ Range(a.keys) = Range(b.keys)
         /\ \A key \in Range(a.keys) :
              SameUnordered(DictGet(a, key), DictGet(b, key))
  ELSE a.v = b.v

Entry(path, kind, idx) == [path |-> path, kind |-> kind, idx |-> idx]

RECURSIVE DeepDiffAt(_, _, _)
DeepDiffAt(t1, t2, path) ==
  IF t1.k # t2.k THEN {Entry(path, "type_changes", 0)}
  ELSE IF t1.k = "dict"
    THEN {Entry(Append(path, key), "dictionary_item_removed", 0) :
             key \in Range(t1.keys) \ Range(t2.keys)}
         \cup {Entry(Append(path, key), "dictionary_item_added", 0) :
             key \in Range(t2.keys) \ Range(t1.keys)}
         \cup UNION {DeepDiffAt(DictGet(t1, key), DictGet(t2, key), Append(path, key)) :
             key \in Range(t1.keys) \cap Range(t2.keys)}
  ELSE IF t1.k = "list"
    THEN {Entry(path, "iterable_item_removed", i) :
             i \in {i \in DOMAIN t1.kids :
                      \A j \in DOMAIN t2.kids : ~SameUnordered(t1.kids[i], t2.kids[j])}}
         \cup {Entry(path, "iterable_item_added", j) :
             j \in {j \in DOMAIN t2.kids :
                      \A i \in DOMAIN t1.kids : ~SameUnordered(t1.kids[i], t2.kids[j])}}
  ELSE IF t1.v # t2.v THEN {Entry(path, "values_changed", 0)}
  ELSE {}

DeepDiff(t1, t2) == DeepDiffAt(t1, t2, <<>>)

(***************************************************************************)
(* compare_configurations(baseline, current_config).  The result is the    *)
(* DeepDiff, or Python None: [none |-> TRUE].  raises says that the        *)
(* DeepDiff call raised (the except branch of the function).               *)
(***************************************************************************)
NoneDiff == [none |-> TRUE, diff |-> {}]
Diff(entries) == [none |-> FALSE, diff |-> entries]

compare_configurations(baseline, current_config, raises) ==
  IF baseline = None \/ current_config = None THEN NoneDiff
  ELSE IF raises THEN NoneDiff
  ELSE Diff(DeepDiff(baseline, current_config))

\* `if differences:` -- None and an empty DeepDiff are both falsy
Truthy(differences) == ~differences.none /\ differences.diff # {}

\* a bug: off by one, an interval of exactly the minimum is rejected
is_valid_interval_strict(i) == ~(i <= MinInterval)

\* is_valid_interval(interval) returns True; FALSE stands for the ValueError
is_valid_interval(i) == ~(i < MinInterval)

(***************************************************************************)
(* State.                                                                  *)
(***************************************************************************)
VARIABLES
  pc,                    \* where the main thread is
  interval,              \* args.interval
  format,                \* args.format: "yaml", "json" or "none"
  suffix,                \* how args.baseline ends
  remote,                \* args.remote
  output_path,           \* TRUE when --output is given
  scheduled,             \* the job is registered with schedule
  until_next,            \* seconds until the job's next_run (0: due)
  in_flight,             \* check_configuration invocations executing
  elapsed,               \* seconds the command of this cycle has been running
  command_ok,            \* run_command returned a string, not None
  current_config_string, \* the command's output
  current_config,        \* format_output's result
  readable,              \* this cycle, the baseline file / URL can be read
  content,               \* this cycle, the text of the baseline file / URL
  baseline,              \* load_baseline's result
  differences,           \* compare_configurations' result
  diff_raised,           \* DeepDiff raised in this cycle
  called,                \* functions invoked by the current / last cycle
  outcome,               \* the message the last cycle ended with
  saved                  \* the output file was written by this cycle

vars == <<pc, interval, format, suffix, remote, output_path, scheduled,
          until_next, in_flight, elapsed, command_ok, current_config_string,
          current_config, readable, content, baseline, differences,
          diff_raised, called, outcome, saved>>

args == <<interval, format, suffix, remote, output_path>>
locals == <<command_ok, current_config_string, current_config, baseline,
            differences, diff_raised>>
source == <<readable, content>>

LoopPcs == {"run_pending", "sleep"}
CyclePcs == {"run_command", "format_output", "load_baseline", "compare",
             "report", "save", "return"}
Outcomes == {"none", "pending", "command_error", "parse_error",
             "baseline_error", "drift", "no_drift"}
Failures == {"command_error", "parse_error", "baseline_error"}

\* the locals of a check_configuration frame that does not exist
NoLocals ==
  /\ command_ok' = FALSE
  /\ current_config_string' = ""
  /\ current_config' = None
  /\ baseline' = None
  /\ differences' = NoneDiff
  /\ diff_raised' = FALSE

\* the baseline source is only looked at during a cycle
NoSource ==
  /\ readable' = FALSE
  /\ content' = ""

\* main() after setup_argparse
Init ==
  /\ pc = "main"
  /\ interval \in Intervals
  /\ format \in {"yaml", "json", "none"}
  /\ suffix \in Suffixes
  /\ remote \in BOOLEAN
  /\ output_path \in BOOLEAN
  /\ scheduled = FALSE
  /\ until_next = 0
  /\ in_flight = 0
  /\ elapsed = 0
  /\ command_ok = FALSE
  /\ current_config_string = ""
  /\ current_config = None
  /\ readable = FALSE
  /\ content = ""
  /\ baseline = None
  /\ differences = NoneDiff
  /\ diff_raised = FALSE
  /\ called = {}
  /\ outcome = "none"
  /\ saved = FALSE

(***************************************************************************)
(* main: validation and scheduling.                                        *)
(***************************************************************************)
\* is_valid_interval raised: log the error and return
InvalidInterval ==
  /\ pc = "main"
  /\ ~is_valid_interval(interval)
  /\ pc' = "returned"
  /\ UNCHANGED <<args, scheduled, until_next, in_flight, elapsed, locals, source,
                 called, outcome, saved>>

\* schedule.every(interval).seconds.do(...): next_run = now + interval
ScheduleJob ==
  /\ pc = "main"
  /\ is_valid_interval(interval)
  /\ scheduled' = TRUE
  /\ until_next' = interval
  /\ pc' = "run_pending"
  /\ UNCHANGED <<args, in_flight, elapsed, locals, source, called, outcome, saved>>

(***************************************************************************)
(* The scheduler loop: schedule.run_pending(); time.sleep(1).              *)
(***************************************************************************)
\* a bug: the job is handed to a thread and run_pending returns at once
StartCycleAsync ==
  /\ pc = "run_pending"
  /\ scheduled /\ until_next = 0
  /\ pc' = "sleep"
  /\ in_flight' = in_flight + 1
  /\ elapsed' = 0
  /\ called' = {}
  /\ saved' = FALSE
  /\ NoLocals
  /\ NoSource
  /\ UNCHANGED <<args, scheduled, until_next, outcome>>

\* run_pending finds the job due and calls check_configuration
StartCycle ==
  /\ pc = "run_pending"
  /\ scheduled /\ until_next = 0
  /\ pc' = "run_command"
  /\ in_flight' = in_flight + 1
  /\ elapsed' = 0
  /\ called' = {}
  /\ saved' = FALSE
  /\ NoLocals
  /\ \E r \in BOOLEAN, text \in Texts :
       /\ readable' = r
       /\ content' = IF r THEN text ELSE ""
  /\ UNCHANGED <<args, scheduled, until_next, outcome>>

\* run_pending finds no job due
NothingPending ==
  /\ pc = "run_pending"
  /\ ~(scheduled /\ until_next = 0)
  /\ pc' = "sleep"
  /\ UNCHANGED <<args, scheduled, until_next, in_flight, elapsed, locals, source,
                 called, outcome, saved>>

Sleep ==
  /\ pc = "sleep"
  /\ until_next' = IF until_next > 0 THEN until_next - 1 ELSE 0
  /\ pc' = "run_pending"
  /\ UNCHANGED <<args, scheduled, in_flight, elapsed, locals, source, called,
                 outcome, saved>>

\* KeyboardInterrupt: unwinds any running cycle, main logs "Exiting..."
Interrupt ==
  /\ pc \in LoopPcs \cup CyclePcs
  /\ pc' = "interrupted"
  /\ in_flight' = 0
  /\ elapsed' = 0
  /\ NoLocals
  /\ NoSource
  /\ UNCHANGED <<args, scheduled, until_next, called, outcome, saved>>

(***************************************************************************)
(* check_configuration, one action per call it makes.                      *)
(***************************************************************************)
\* time passes while the command runs
CommandRuns ==
  /\ pc = "run_command"
  /\ elapsed < interval + MaxOverrun
  /\ elapsed' = elapsed + 1
  /\ UNCHANGED <<pc, args, scheduled, until_next, in_flight, locals, source, called,
                 outcome, saved>>

\* a bug: the early return after a failed command is missing
RunCommandFailsNoReturn ==
  /\ pc = "run_command"
  /\ called' = called \cup {"run_command"}
  /\ command_ok' = FALSE
  /\ outcome' = "command_error"
  /\ pc' = "format_output"
  /\ elapsed' = 0
  /\ UNCHANGED <<args, scheduled, until_next, in_flight,
                 current_config_string, current_config, readable, content,
                 baseline, differences, diff_raised, saved>>

\* run_command returned None: "Failed to retrieve current configuration."
RunCommandFails ==
  /\ pc = "run_command"
  /\ called' = called \cup {"run_command"}
  /\ command_ok' = FALSE
  /\ outcome' = "command_error"
  /\ pc' = "return"
  /\ elapsed' = 0
  /\ UNCHANGED <<args, scheduled, until_next, in_flight,
                 current_config_string, current_config, readable, content,
                 baseline, differences, diff_raised, saved>>

\* run_command returned the command's output
RunCommandSucceeds ==
  /\ pc = "run_command"
  /\ \E text \in Texts : current_config_string' = text
  /\ called' = called \cup {"run_command"}
  /\ command_ok' = TRUE
  /\ outcome' = "pending"
  /\ pc' = "format_output"
  /\ elapsed' = 0
  /\ UNCHANGED <<args, scheduled, until_next, in_flight, current_config,
                 readable, content, baseline, differences, diff_raised,
                 saved>>

\* current_config = format_output(...); None: "Failed to parse current
\* configuration."
FormatOutput ==
  /\ pc = "format_output"
  /\ called' = called \cup {"format_output"}
  /\ current_config' = format_output(current_config_string, format)
  /\ IF current_config' = None
       THEN outcome' = "parse_error" /\ pc' = "return"
       ELSE outcome' = outcome /\ pc' = "load_baseline"
  /\ UNCHANGED <<args, scheduled, until_next, in_flight, elapsed, command_ok,
                 current_config_string, readable, content, baseline,
                 differences, diff_raised, saved>>

\* baseline = load_baseline(...); None: "Failed to load baseline
\* configuration."
LoadBaseline ==
  /\ pc = "load_baseline"
  /\ called' = called \cup {"load_baseline"}
  /\ baseline' = load_baseline(readable, content, suffix, format)
  /\ IF baseline' = None
       THEN outcome' = "baseline_error" /\ pc' = "return"
       ELSE outcome' = outcome /\ pc' = "compare"
  /\ UNCHANGED <<args, scheduled, until_next, in_flight, elapsed, command_ok,
                 current_config_string, current_config, source, differences,
                 diff_raised, saved>>

\* differences = compare_configurations(baseline, current_config)
Compare ==
  /\ pc = "compare"
  /\ called' = called \cup {"compare_configurations"}
  /\ \E raises \in BOOLEAN :
       /\ diff_raised' = raises
       /\ differences' = compare_configurations(baseline, current_config, raises)
  /\ pc' = "report"
  /\ UNCHANGED <<args, scheduled, until_next, in_flight, elapsed, command_ok,
                 current_config_string, current_config, readable, content,
                 baseline, outcome, saved>>

\* if differences: "Configuration drift detected!"
ReportDrift ==
  /\ pc = "report"
  /\ Truthy(differences)
  /\ outcome' = "drift"
  /\ pc' = IF output_path THEN "save" ELSE "return"
  /\ UNCHANGED <<args, scheduled, until_next, in_flight, elapsed, locals, source,
                 called, saved>>

\* else: "No configuration drift detected."
ReportNoDrift ==
  /\ pc = "report"
  /\ ~Truthy(differences)
  /\ outcome' = "no_drift"
  /\ pc' = "return"
  /\ UNCHANGED <<args, scheduled, until_next, in_flight, elapsed, locals, source,
                 called, saved>>

\* a bug: save_differences lets the error of a failed write escape
SaveDifferencesUncaught ==
  /\ pc = "save"
  /\ called' = called \cup {"save_differences"}
  /\ \E ok \in BOOLEAN :
       /\ saved' = ok
       /\ pc' = IF ok THEN "return" ELSE "crashed"
  /\ UNCHANGED <<args, scheduled, until_next, in_flight, elapsed, locals, source,
                 outcome>>

\* save_differences: the write succeeds, or fails and the error is logged
SaveDifferences ==
  /\ pc = "save"
  /\ called' = called \cup {"save_differences"}
  /\ \E ok \in BOOLEAN : saved' = ok
  /\ pc' = "return"
  /\ UNCHANGED <<args, scheduled, until_next, in_flight, elapsed, locals, source,
                 outcome>>

\* check_configuration returns; schedule sets next_run = now + interval and
\* run_pending returns to the loop
CycleReturn ==
  /\ pc = "return"
  /\ pc' = "sleep"
  /\ in_flight' = in_flight - 1
  /\ until_next' = interval
  /\ NoLocals
  /\ NoSource
  /\ UNCHANGED <<args, scheduled, elapsed, called, outcome, saved>>

Next ==
  \/ InvalidInterval
  \/ ScheduleJob
  \/ StartCycle
  \/ NothingPending
  \/ Sleep
  \/ Interrupt
  \/ CommandRuns
  \/ RunCommandFails
  \/ RunCommandSucceeds
  \/ FormatOutput
  \/ LoadBaseline
  \/ Compare
  \/ ReportDrift
  \/ ReportNoDrift
  \/ SaveDifferences
  \/ CycleReturn

Spec == Init /\ [][Next]_vars

\* The loop and the cycle keep taking steps; a KeyboardInterrupt need not come.
FairSpec ==
  /\ Spec
  /\ WF_vars(StartCycle) /\ WF_vars(NothingPending) /\ WF_vars(Sleep)
  /\ WF_vars(RunCommandFails \/ RunCommandSucceeds)
  /\ WF_vars(FormatOutput) /\ WF_vars(LoadBaseline) /\ WF_vars(Compare)
  /\ WF_vars(ReportDrift) /\ WF_vars(ReportNoDrift)
  /\ WF_vars(SaveDifferences) /\ WF_vars(CycleReturn)

TypeOK ==
  /\ pc \in {"main", "returned", "interrupted", "crashed"} \cup LoopPcs \cup CyclePcs
  /\ interval \in Intervals
  /\ until_next \in 0..MaxInterval
  /\ in_flight \in 0..1
  /\ outcome \in Outcomes
  /\ called \subseteq {"run_command", "format_output", "load_baseline",
                       "compare_configurations", "save_differences"}

(***************************************************************************)
(* Properties.                                                             *)
(***************************************************************************)
RECURSIVE Permuted(_, _)
\* a and b are identical except for the order of the items inside lists
Permuted(a, b) ==
  IF a.k # b.k THEN FALSE
  ELSE IF a.k = "list"
    THEN /\ Len(a.kids) = Len(b.kids)
         /\ \/ Len(a.kids) = 0
            \/ \E p \in Permutations(DOMAIN a.kids) :
                 \A i \in DOMAIN a.kids : Permuted(a.kids[i], b.kids[p[i]])
  ELSE IF a.k = "dict"
    THEN /\ Range(a.keys) = Range(b.keys)
         /\ \A key \in Range(a.keys) : Permuted(DictGet(a, key), DictGet(b, key))
  ELSE a.v = b.v

Running == LoopPcs \cup CyclePcs
AfterFormat == {"load_baseline", "compare", "report", "save", "return"}
AfterLoad == {"compare", "report", "save", "return"}
AfterCompare == {"report", "save", "return"}

\* a cycle is about to return after one of its stages failed
CycleFailed ==
  /\ pc = "return"
  /\ \/ outcome \in Failures
     \/ diff_raised
     \/ "save_differences" \in called /\ ~saved

\* C1: every failure inside a cycle (command, parse, baseline, comparison
\* raising, failed write) lets check_configuration return to the scheduler
\* loop; the loop is only left by a keyboard interrupt, and unless that
\* comes a later tick starts a new cycle.
CycleIsolation ==
  /\ [][(pc \in Running /\ pc' \notin Running) => pc' = "interrupted"]_vars
  /\ [][pc = "return" => pc' \in {"sleep", "interrupted"}]_vars
  /\ (CycleFailed ~> (pc = "run_command" \/ pc = "interrupted"))

\* a new cycle has started after a cycle that failed
NewCycleAfterFailure == pc = "run_command" /\ outcome \in Failures

\* C2: when run_command returns None the cycle ends with the command error
\* and format_output, load_baseline, compare_configurations and
\* save_differences are never invoked.
CommandFailureShortCircuits ==
  /\ (pc \in CyclePcs \ {"run_command"} /\ ~command_ok) =>
       (pc = "return" /\ outcome = "command_error" /\ called = {"run_command"})
  /\ (pc \in LoopPcs \cup {"return"} /\ outcome = "command_error") =>
       called = {"run_command"}

CommandFailedCycle == pc = "return" /\ ~command_ok /\ outcome = "command_error"

\* C3 as stated: whenever the command succeeded and the baseline cannot be
\* loaded, the cycle fails with the baseline-load error, whatever the
\* command printed.
BaselineFailureAlwaysReported ==
  (pc = "return" /\ command_ok /\ ~readable) => outcome = "baseline_error"

\* C3 amended: when the command succeeded and the baseline cannot be loaded,
\* the cycle fails with the baseline-load error if the command output
\* parsed; if it did not parse, the cycle ends with the parse error and the
\* baseline is never fetched.
BaselineFailureAfterParse ==
  (pc = "return" /\ command_ok /\ ~readable) =>
     IF current_config # None
       THEN /\ outcome = "baseline_error"
            /\ "load_baseline" \in called
            /\ "compare_configurations" \notin called
       ELSE /\ outcome = "parse_error"
            /\ "load_baseline" \notin called

BaselineMissingCycle ==
  /\ pc = "return" /\ command_ok /\ ~readable
  /\ current_config_string = "hello" /\ outcome = "baseline_error"

\* the baseline text read is valid YAML but not valid JSON
YamlNotJson(text) == ~IsError(YamlLoad(text)) /\ IsError(JsonLoads(text))

AutoJsonBaselineLoaded ==
  /\ pc \in AfterLoad /\ "load_baseline" \in called
  /\ format = "none" /\ suffix = ".json"
  /\ readable /\ YamlNotJson(content)

\* C4 as stated: with no format and a .json baseline name, a baseline that
\* is valid YAML but not valid JSON is parsed by the YAML fallback and the
\* cycle does not abort with a baseline failure.
AutoDetectFallback ==
  AutoJsonBaselineLoaded =>
    (baseline = YamlLoad(content) /\ outcome # "baseline_error")

\* C4 amended: with no format and a .json baseline name only JSON is
\* attempted; a baseline that is valid YAML but not valid JSON is not
\* loaded (None) and the cycle aborts with the baseline failure.
AutoDetectJsonOnly ==
  AutoJsonBaselineLoaded =>
    (baseline = None /\ outcome = "baseline_error" /\ pc = "return")

YamlBaselineUnderJsonName == AutoJsonBaselineLoaded /\ content = "a: 1"

SameTextBothSides ==
  /\ pc \in AfterLoad /\ "load_baseline" \in called
  /\ readable /\ content = current_config_string

\* C5 as stated: for every format setting and baseline name, the same text
\* as command output and as baseline yields the same result on both sides.
SameHintBothSides == SameTextBothSides => baseline = current_config

\* C5 amended: with an explicit format (yaml or json) the same text yields
\* the same result on both sides, whatever the baseline name; when the
\* command output failed to parse, load_baseline fails on that text too.
SameHintWhenExplicit ==
  /\ (SameTextBothSides /\ format # "none") => baseline = current_config
  /\ (pc = "return" /\ outcome = "parse_error" /\ format # "none" /\ readable) =>
       load_baseline(readable, current_config_string, suffix, format) = None

ExplicitFormatAgainstSuffix ==
  /\ SameTextBothSides /\ format = "json" /\ suffix = ".yaml"
  /\ current_config_string = "1e3" /\ pc = "compare"

\* the kinds of a bare scalar: string, integer, float, boolean, null
ScalarKinds == {"str", "int", "float", "bool", "None"}

\* C6: a command output or a baseline that parses under YAML to a bare
\* scalar (string, integer, float, boolean or null) is not treated as a
\* parse / load failure: the cycle proceeds to the comparison.
BareScalarsAreDocuments ==
  /\ ( /\ pc \in AfterFormat /\ "format_output" \in called
       /\ format \in {"yaml", "none"}
       /\ YamlLoad(current_config_string).k \in ScalarKinds )
     => outcome # "parse_error"
  /\ ( /\ pc \in AfterLoad /\ "load_baseline" \in called /\ readable
       /\ BaselineFormat(suffix, format) = "yaml"
       /\ YamlLoad(content).k \in ScalarKinds )
     => outcome # "baseline_error"

\* C7: at most one check cycle is executing; the loop is only at
\* run_pending / sleep when no cycle is in flight, also when the cycle ran
\* longer than the interval.
AtMostOneInFlight ==
  /\ in_flight <= 1
  /\ pc \in CyclePcs => in_flight = 1
  /\ pc \in LoopPcs => in_flight = 0

CycleLongerThanInterval ==
  pc = "run_command" /\ elapsed > interval /\ in_flight = 1 /\ until_next = 0

\* C8: an interval below 10 makes main return without registering the job
\* or entering the loop, so no cycle ever runs; an interval of 10 or more
\* gets the job scheduled and the loop started.
IntervalValidationFatal ==
  /\ interval < 10 =>
       /\ pc \in {"main", "returned"}
       /\ ~scheduled /\ in_flight = 0 /\ called = {} /\ outcome = "none"
  /\ (interval >= 10 /\ pc # "main") => (scheduled /\ pc # "returned")

RejectedInterval == pc = "returned" /\ interval = 9 /\ ~scheduled

NoDriftOnlyAfterEmptyDiff ==
  (pc = "return" /\ outcome = "no_drift") =>
     (~diff_raised /\ differences = Diff({}))

====
